---- MODULE Spec2Model ----
(***************************************************************************)
(* The emulator core of catsanzshftw/EMUPS5: CPU, Memory and Emulator of   *)
(* the three variants that decode instructions, and the update thread of   *)
(* EmulatorApp that ticks the Emulator and drains its queues.              *)
(*                                                                         *)
(*   KYTY  src/PS5EMU1.06.29.251.0.py  32-bit words, 128KB, opcodes 0..7,  *)
(*                                     bounds-checked Memory               *)
(*   HDR   src/EMUPS55.17.25V0hdr.py   32-bit words, 64KB, opcodes 0..5,   *)
(*                                     unchecked Memory                    *)
(*   PS5   src/PS5Emu.py               64-bit words, 16GB, opcodes 0..4,   *)
(*                                     unchecked Memory                    *)
(*                                                                         *)
(* The first iteration, src/v1.py (V1), decodes nothing and has a          *)
(* specification of its own, SpecV1; SpecThreads takes run_cycle statement *)
(* by statement between the callbacks of the Tk thread.                    *)
(*                                                                         *)
(* Numbers.  TLC's integers are 32-bit, so every register, instruction     *)
(* word, address and memory length is a little-endian tuple of bytes (4    *)
(* for np.uint32, 8 for np.uint64); the bytes of a word are exactly what   *)
(* np.frombuffer reads or writes on a little-endian host.  Arithmetic on   *)
(* NumPy scalars keeps the scalar's width (NumPy >= 2 promotion: a Python  *)
(* int operand adopts the scalar's type), so reg + reg and address + 4     *)
(* wrap at 2^32 / 2^64.  The program counter is a Python int or a small    *)
(* NumPy scalar and never leaves 0 .. 2^24 + 4, so it is an integer.       *)
(*                                                                         *)
(* Memory.  np.zeros(size) is kept sparsely: memory maps the addresses of  *)
(* the non-zero bytes to their values; every other byte below the length   *)
(* is 0.                                                                   *)
(*                                                                         *)
(* Exceptions.  A slice memory[a:a+K] that reaches past the end is short   *)
(* or empty; np.frombuffer(...)[0] on it and the assignment of K bytes to  *)
(* it raise.  An exception raised inside run_cycle leaves update_loop and  *)
(* ends the update thread.                                                 *)
(***************************************************************************)
EXTENDS Integers, Sequences, FiniteSets, TLC

VARIABLES
    variant,        \* which source file the machine was built from
    registers,      \* CPU.registers
    pc,             \* CPU.pc
    memory,         \* Memory.memory, the non-zero bytes
    is_running,     \* Emulator.is_running
    game_loaded,    \* Emulator.game_loaded
    log_queue,      \* queue.Queue of (severity, message)
    status_queue,   \* queue.Queue of (label, severity)
    loop_at,        \* position of update_loop inside its iteration
    thread_alive,   \* the update thread has not died of an exception
    run_state,      \* history: the run-state of the machine (Idle, Running, Paused, Halted)
    prev_state,     \* history: the run-state before the last step
    cycles,         \* instructions executed so far (bounded by MaxCycles)
    loads,          \* calls of load_game and load_demo so far (bounded by MaxLoads)
    op,             \* history: the operation that took the last step
    ir,             \* history: the instruction word run_cycle fetched last
    framebuffer     \* Emulator.framebuffer where it is an array of its own (v1.py),
                    \* the non-zero bytes; <<>> where it is a view of Memory.memory

vars == <<variant, registers, pc, memory, is_running, game_loaded, log_queue,
          status_queue, loop_at, thread_alive, run_state, prev_state, cycles, loads,
          op, ir, framebuffer>>

KYTY == "PS5EMU1.06.29.251.0.py"
HDR == "EMUPS55.17.25V0hdr.py"
PS5 == "PS5Emu.py"
V1 == "v1.py"

Variants == {KYTY, HDR, PS5}

\* Executed instructions explored per run of the model.
MaxCycles == 8

\* Toolbar callbacks are explored while fewer than this many log events are
\* waiting for update_logs.
MaxPending == 1

\* Calls of load_game and load_demo explored per run of the model.
MaxLoads == 1

\* The first iteration (v1.py) never empties the queues its emulator writes
\* to; it is explored while they hold fewer than this many log events.
MaxEventsV1 == 5

(***************************************************************************)
(* Fixed-width unsigned numbers as little-endian byte tuples.              *)
(***************************************************************************)
Byte == 0..255

\* 256^k for k in 0..3.
Pow256(k) == CASE k = 0 -> 1 [] k = 1 -> 256 [] k = 2 -> 65536 [] k = 3 -> 16777216

\* The w-byte little-endian image of a non-negative integer below 2^31.
ToBytes(n, w) == [i \in 1..w |-> IF i <= 4 THEN (n \div Pow256(i - 1)) % 256 ELSE 0]

\* The number is below 2^31 and so has an integer value in the model.
IsSmall(bs) == \A i \in 1..Len(bs) : (i = 4 => bs[i] < 128) /\ (i > 4 => bs[i] = 0)

\* The integer value of a small number.
ToInt(bs) ==
    LET B(i) == IF i <= Len(bs) THEN bs[i] ELSE 0
    IN  B(1) + 256 * B(2) + 65536 * B(3) + 16777216 * B(4)

\* a < b for two numbers of the same width: decided at the highest byte
\* in which they differ.
RECURSIVE LessFrom(_, _, _)
LessFrom(a, b, i) ==
    IF i = 0 THEN FALSE
    ELSE IF a[i] # b[i] THEN a[i] < b[i]
    ELSE LessFrom(a, b, i - 1)

Less(a, b) == LessFrom(a, b, Len(a))

\* a + b truncated to the width of a: the sum of two scalars of one dtype.
RECURSIVE AddFrom(_, _, _, _)
AddFrom(a, b, i, carry) ==
    IF i > Len(a) THEN <<>>
    ELSE LET t == a[i] + b[i] + carry
         IN  <<t % 256>> \o AddFrom(a, b, i + 1, t \div 256)

\* a + b clamped at the largest value of the width instead of wrapping.
AddSaturate(a, b) ==
    LET t == AddFrom(a, b, 1, 0)
    IN  IF Less(t, a) THEN [i \in 1..Len(a) |-> 255] ELSE t

AddWrap(a, b) == AddFrom(a, b, 1, 0)

\* (word >> sh) & (2^n - 1) for a field that ends within three bytes of its
\* first byte (every register, coordinate, channel, opcode and 24-bit field).
Pow2(k) == IF k = 0 THEN 1 ELSE 2 ^ k

Field(word, sh, n) ==
    LET b0 == sh \div 8
        B(k) == IF b0 + k + 1 <= Len(word) THEN word[b0 + k + 1] ELSE 0
        v == B(0) + 256 * B(1) + 65536 * B(2)
    IN  (v \div Pow2(sh % 8)) % Pow2(n)

(***************************************************************************)
(* Configuration of the three variants.                                    *)
(***************************************************************************)
\* Bytes per instruction word and per register.
WordBytes(v) == IF v \in {PS5, V1} THEN 8 ELSE 4

\* len(CPU.registers)
NumRegisters(v) == IF v \in {PS5, V1} THEN 256 ELSE 16

\* len(Memory.memory) as a number of the width of an address.
MemLenKyty == ToBytes(128 * 1024, 4)
MemLenHdr == ToBytes(64 * 1024, 4)
MemLenPs5 == <<0, 0, 0, 0, 4, 0, 0, 0>>      \* 16 * 1024^3 = 4 * 2^32

MemLen(v) ==
    CASE v = KYTY -> MemLenKyty [] v = HDR -> MemLenHdr [] v \in {PS5, V1} -> MemLenPs5

ZeroWord32 == <<0, 0, 0, 0>>
ZeroWord64 == <<0, 0, 0, 0, 0, 0, 0, 0>>

ZeroWord(v) == IF v \in {PS5, V1} THEN ZeroWord64 ELSE ZeroWord32

(***************************************************************************)
(* Memory                                                                  *)
(***************************************************************************)
ByteAt(mem, a) == IF a \in DOMAIN mem THEN mem[a] ELSE 0

\* The bytes stored in the opposite order.
StoreBytes_reversed(mem, a, bytes) ==
    LET K == Len(bytes)
        hit == a..(a + K - 1)
        dom == (DOMAIN mem \ hit) \cup {x \in hit : bytes[K - (x - a)] # 0}
    IN  [x \in dom |-> IF x \in hit THEN bytes[K - (x - a)] ELSE mem[x]]

\* memory[a : a+Len(bytes)] = bytes, for a slice inside the array.
StoreBytes(mem, a, bytes) ==
    LET hit == a..(a + Len(bytes) - 1)
        dom == (DOMAIN mem \ hit) \cup {x \in hit : bytes[x - a + 1] # 0}
    IN  [x \in dom |-> IF x \in hit THEN bytes[x - a + 1] ELSE mem[x]]

\* The K bytes memory[a : a+K], for a slice inside the array.
LoadBytes(mem, a, K) == [i \in 1..K |-> ByteAt(mem, a + i - 1)]

\* address + K in the dtype of the address.
SliceStop(address, K) == AddWrap(address, ToBytes(K, Len(address)))

\* The slice memory[address : stop] holds all its stop - address bytes: it
\* starts below its (possibly wrapped) stop and stops at or below the length.
SliceFull(v, address, stop) == Less(address, stop) /\ ~Less(MemLen(v), stop)

\* Memory.read_uint32 of the checked variant; [value, raised].
read_uint32_kyty(mem, address) ==
    LET stop == SliceStop(address, 4)
    IN  IF Less(MemLenKyty, stop)
        THEN [value |-> ZeroWord32, raised |-> FALSE]
        ELSE IF SliceFull(KYTY, address, stop)
             THEN [value |-> LoadBytes(mem, ToInt(address), 4), raised |-> FALSE]
             ELSE [value |-> ZeroWord32, raised |-> TRUE]

\* Memory.write_uint32 / write_bytes of the checked variant; [memory, raised].
write_bytes_kyty(mem, address, values) ==
    LET stop == SliceStop(address, Len(values))
    IN  IF Less(MemLenKyty, stop)
        THEN [memory |-> mem, raised |-> FALSE]
        ELSE IF SliceFull(KYTY, address, stop)
             THEN [memory |-> StoreBytes(mem, ToInt(address), values), raised |-> FALSE]
             ELSE [memory |-> mem, raised |-> TRUE]

write_uint32_kyty(mem, address, value) == write_bytes_kyty(mem, address, value)

\* Memory.read_uint32 / read_uint64 of the unchecked variants.
read_uint_unchecked(v, mem, address) ==
    IF SliceFull(v, address, SliceStop(address, WordBytes(v)))
    THEN [value |-> LoadBytes(mem, ToInt(address), WordBytes(v)), raised |-> FALSE]
    ELSE [value |-> ZeroWord(v), raised |-> TRUE]

\* Memory.write_uint32 / write_uint64 / write_bytes of the unchecked variants.
write_bytes_unchecked(v, mem, address, values) ==
    IF SliceFull(v, address, SliceStop(address, Len(values)))
    THEN [memory |-> StoreBytes(mem, ToInt(address), values), raised |-> FALSE]
    ELSE [memory |-> mem, raised |-> TRUE]

\* Memory.read of the variant's word.
read_word(v, mem, address) ==
    IF v = KYTY THEN read_uint32_kyty(mem, address)
    ELSE read_uint_unchecked(v, mem, address)

\* Memory.write of the variant's word.
write_word(v, mem, address, value) ==
    IF v = KYTY THEN write_uint32_kyty(mem, address, value)
    ELSE write_bytes_unchecked(v, mem, address, value)

\* Memory.write_bytes of the variant.
write_bytes(v, mem, address, values) ==
    IF v = KYTY THEN write_bytes_kyty(mem, address, values)
    ELSE write_bytes_unchecked(v, mem, address, values)

(***************************************************************************)
(* CPU.execute_instruction.  The result is the state it leaves behind:     *)
(* [registers, memory, pc, log, raised], log being the events it put on    *)
(* the log queue.  When raised, the exception left before any assignment.  *)
(***************************************************************************)
Unchanged(regs, mem, pc0) ==
    [registers |-> regs, memory |-> mem, pc |-> pc0, log |-> <<>>, raised |-> FALSE]

Raised(regs, mem, pc0) ==
    [registers |-> regs, memory |-> mem, pc |-> pc0, log |-> <<>>, raised |-> TRUE]

\* The event of an unknown opcode put at warning severity.
UnknownOpcode_warning(opcode) == <<"warning", "Unknown opcode: " \o ToString(opcode)>>

\* ('error', f"Unknown opcode: {opcode}")
UnknownOpcode(opcode) == <<"error", "Unknown opcode: " \o ToString(opcode)>>

\* The address of JMP cut to 16 bits.
jmp_addr_16(instruction) == Field(instruction, 0, 16)

\* addr = instruction & 0xFFFFFF
jmp_addr(instruction) == Field(instruction, 0, 24)

\* The target of BEQ without the wrap at the size of memory.
beq_target_unwrapped(instruction, pc0) == pc0 + Field(instruction, 0, 16)

\* (self.pc + offset) % (128 * 1024), offset = instruction & 0xFFFF
beq_target(instruction, pc0) == (pc0 + Field(instruction, 0, 16)) % (128 * 1024)

\* A register field masked with 0x1F.
reg_field_5bit(instruction, sh) == Field(instruction, sh, 5)

\* (instruction >> sh) & 0xF: a register field of a 32-bit instruction
reg_field(instruction, sh) == Field(instruction, sh, 4)

\* (instruction >> sh) & 0xFF: a register field of a 64-bit instruction
reg_field_ps5(instruction, sh) == Field(instruction, sh, 8)

\* The register indices execute_instruction uses for an instruction word.
register_indices(v, instruction) ==
    LET opcode == Field(instruction, 8 * WordBytes(v) - 8, 8)
    IN  IF v = PS5
        THEN CASE opcode = 1 -> {reg_field_ps5(instruction, 48), reg_field_ps5(instruction, 40),
                                 reg_field_ps5(instruction, 32)}
               [] opcode \in {2, 3} -> {reg_field_ps5(instruction, 48)}
               [] OTHER -> {}
        ELSE CASE opcode \in {1, 3, 4} -> {reg_field(instruction, 20), reg_field(instruction, 16)}
               [] opcode = 2 -> {reg_field(instruction, 20), reg_field(instruction, 16),
                                 reg_field(instruction, 12)}
               [] opcode = 7 /\ v = KYTY ->
                                {reg_field(instruction, 20), reg_field(instruction, 16)}
               [] OTHER -> {}

\* A 3-bit channel rescaled to the full 0..255 range.
scale_kyty_full(val) == (val * 255) \div 7

\* val * 36 for val in (r, g, b, a)
scale_kyty(val) == val * 36

\* val * 17 for val in (r, g, b, a)
scale_hdr(val) == val * 17

\* src/PS5EMU1.06.29.251.0.py
execute_instruction_kyty(instruction, regs, mem, pc0) ==
    LET opcode == Field(instruction, 24, 8)
        f20 == reg_field(instruction, 20)
        f16 == reg_field(instruction, 16)
        f12 == reg_field(instruction, 12)
        same == Unchanged(regs, mem, pc0)
        body ==
            CASE opcode = 0 -> same
              [] opcode = 1 -> [same EXCEPT !.registers = [regs EXCEPT ![f20] = regs[f16]]]
              [] opcode = 2 ->
                    [same EXCEPT !.registers =
                        [regs EXCEPT ![f20] = AddWrap(regs[f16], regs[f12])]]
              [] opcode = 3 ->
                    LET r == read_uint32_kyty(mem, regs[f16])
                    IN  IF r.raised THEN Raised(regs, mem, pc0)
                        ELSE [same EXCEPT !.registers = [regs EXCEPT ![f20] = r.value]]
              [] opcode = 4 ->
                    LET w == write_uint32_kyty(mem, regs[f16], regs[f20])
                    IN  IF w.raised THEN Raised(regs, mem, pc0)
                        ELSE [same EXCEPT !.memory = w.memory]
              [] opcode = 5 ->
                    LET x == Field(instruction, 20, 8)
                        y == Field(instruction, 12, 8)
                        r == scale_kyty(Field(instruction, 9, 3))
                        g == scale_kyty(Field(instruction, 6, 3))
                        b == scale_kyty(Field(instruction, 3, 3))
                        a == scale_kyty(Field(instruction, 0, 3))
                    IN  IF x < 128 /\ y < 128
                        THEN LET addr == y * 128 * 4 + x * 4
                                 w == write_bytes_kyty(mem, ToBytes(addr, 4), <<r, g, b, a>>)
                             IN  IF w.raised THEN Raised(regs, mem, pc0)
                                 ELSE [same EXCEPT !.memory = w.memory]
                        ELSE same
              [] opcode = 6 -> same
              [] opcode = 7 -> same
              [] OTHER -> [same EXCEPT !.log = <<UnknownOpcode(opcode)>>]
    IN  IF opcode = 6
        THEN [same EXCEPT !.pc = jmp_addr(instruction)]
        ELSE IF opcode = 7 /\ regs[f20] = regs[f16]
        THEN [same EXCEPT !.pc = beq_target(instruction, pc0)]
        ELSE IF body.raised THEN body
        ELSE [body EXCEPT !.pc = pc0 + 4]

\* src/EMUPS55.17.25V0hdr.py
execute_instruction_hdr(instruction, regs, mem, pc0) ==
    LET opcode == Field(instruction, 24, 8)
        f20 == reg_field(instruction, 20)
        f16 == reg_field(instruction, 16)
        f12 == reg_field(instruction, 12)
        same == Unchanged(regs, mem, pc0)
        body ==
            CASE opcode = 0 -> same
              [] opcode = 1 -> [same EXCEPT !.registers = [regs EXCEPT ![f20] = regs[f16]]]
              [] opcode = 2 ->
                    [same EXCEPT !.registers =
                        [regs EXCEPT ![f20] = AddWrap(regs[f16], regs[f12])]]
              [] opcode = 3 ->
                    LET r == read_uint_unchecked(HDR, mem, regs[f16])
                    IN  IF r.raised THEN Raised(regs, mem, pc0)
                        ELSE [same EXCEPT !.registers = [regs EXCEPT ![f20] = r.value]]
              [] opcode = 4 ->
                    LET w == write_bytes_unchecked(HDR, mem, regs[f16], regs[f20])
                    IN  IF w.raised THEN Raised(regs, mem, pc0)
                        ELSE [same EXCEPT !.memory = w.memory]
              [] opcode = 5 ->
                    LET x == Field(instruction, 20, 4)
                        y == Field(instruction, 16, 4)
                        r == scale_hdr(Field(instruction, 12, 4))
                        g == scale_hdr(Field(instruction, 8, 4))
                        b == scale_hdr(Field(instruction, 4, 4))
                        a == scale_hdr(Field(instruction, 0, 4))
                    IN  IF x < 64 /\ y < 64
                        THEN LET addr == y * 64 * 4 + x * 4
                                 w == write_bytes_unchecked(HDR, mem, ToBytes(addr, 4),
                                                            <<r, g, b, a>>)
                             IN  IF w.raised THEN Raised(regs, mem, pc0)
                                 ELSE [same EXCEPT !.memory = w.memory]
                        ELSE same
              [] OTHER -> [same EXCEPT !.log = <<UnknownOpcode(opcode)>>]
    IN  IF body.raised THEN body ELSE [body EXCEPT !.pc = pc0 + 4]

\* instruction & 0xFFFFFFFFFFFF as an np.uint64
AddressField(instruction) == [i \in 1..8 |-> IF i <= 6 THEN instruction[i] ELSE 0]

\* src/PS5Emu.py
execute_instruction_ps5(instruction, regs, mem, pc0) ==
    LET opcode == Field(instruction, 56, 8)
        f48 == reg_field_ps5(instruction, 48)
        f40 == reg_field_ps5(instruction, 40)
        f32 == reg_field_ps5(instruction, 32)
        same == Unchanged(regs, mem, pc0)
        body ==
            CASE opcode = 0 -> same
              [] opcode = 1 ->
                    [same EXCEPT !.registers =
                        [regs EXCEPT ![f48] = AddWrap(regs[f40], regs[f32])]]
              [] opcode = 2 ->
                    LET r == read_uint_unchecked(PS5, mem, AddressField(instruction))
                    IN  IF r.raised THEN Raised(regs, mem, pc0)
                        ELSE [same EXCEPT !.registers = [regs EXCEPT ![f48] = r.value]]
              [] opcode = 3 ->
                    LET w == write_bytes_unchecked(PS5, mem, AddressField(instruction),
                                                   regs[f48])
                    IN  IF w.raised THEN Raised(regs, mem, pc0)
                        ELSE [same EXCEPT !.memory = w.memory]
              [] opcode = 4 ->
                    LET x == Field(instruction, 48, 8)
                        y == Field(instruction, 40, 8)
                        r == Field(instruction, 32, 8)
                        g == Field(instruction, 24, 8)
                        b == Field(instruction, 16, 8)
                        a == Field(instruction, 8, 8)
                    IN  IF x < 64 /\ y < 64
                        THEN LET addr == y * 64 * 4 + x * 4
                                 w == write_bytes_unchecked(PS5, mem, ToBytes(addr, 8),
                                                            <<r, g, b, a>>)
                             IN  IF w.raised THEN Raised(regs, mem, pc0)
                                 ELSE [same EXCEPT !.memory = w.memory]
                        ELSE same
              [] OTHER -> [same EXCEPT !.log = <<UnknownOpcode(opcode)>>]
    IN  IF body.raised THEN body ELSE [body EXCEPT !.pc = pc0 + 8]

execute_instruction(v, instruction, regs, mem, pc0) ==
    CASE v = KYTY -> execute_instruction_kyty(instruction, regs, mem, pc0)
      [] v = HDR -> execute_instruction_hdr(instruction, regs, mem, pc0)
      [] v = PS5 -> execute_instruction_ps5(instruction, regs, mem, pc0)

(***************************************************************************)
(* Program files chosen by the user (the game_data of load_game).          *)
(***************************************************************************)
\* The word 0xB3B2B1B0 as the bytes of a file.
W32(b3, b2, b1, b0) == <<b0, b1, b2, b3>>

\* The word 0xB7B6B5B4B3B2B1B0 as the bytes of a file.
W64(b7, b6, b5, b4, b3, b2, b1, b0) == <<b0, b1, b2, b3, b4, b5, b6, b7>>

RECURSIVE Flatten(_)
Flatten(words) == IF words = <<>> THEN <<>> ELSE Head(words) \o Flatten(Tail(words))

\* 32-bit instruction words of the KYTY and HDR encodings.
NOP32(data) == ToBytes(data, 4)                          \* opcode 0
MOV32(rd, rs) == W32(1, rd * 16 + rs, 0, 0)
ADD32(rd, rs, rt) == W32(2, rd * 16 + rs, rt * 16, 0)
LDR32(rd, rs) == W32(3, rd * 16 + rs, 0, 0)
STR32(rs, rd) == W32(4, rs * 16 + rd, 0, 0)
JMP32(addr) == [ToBytes(addr, 4) EXCEPT ![4] = 6]
BEQ32(rs, rt, offset) == W32(7, rs * 16 + rt, offset \div 256, offset % 256)

GameFilesKyty == {
    \* a store and a load in range through a register, a BEQ not taken, SETPIXEL
    \* inside and outside the framebuffer, a jump past the top of memory
    Flatten(<<NOP32(8), LDR32(1, 0), STR32(1, 1), LDR32(2, 1), BEQ32(1, 0, 16),
              W32(5, 0, 31, 255), W32(5, 8, 0, 7), JMP32(16777215)>>),
    \* a load and a store two bytes below the top of memory, a jump to an
    \* unaligned address below the top
    Flatten(<<NOP32(128 * 1024 - 2), LDR32(1, 0), LDR32(2, 1), STR32(1, 1),
              JMP32(128 * 1024 - 2)>>),
    \* opcode 255, a wrapping ADD, a load at 2^32 - 2
    Flatten(<<W32(255, 255, 255, 254), LDR32(1, 0), ADD32(15, 1, 1), LDR32(3, 1)>>),
    \* a jump to the last word of memory, and two bytes of a trailing partial word
    Flatten(<<JMP32(128 * 1024 - 4)>>) \o <<7, 7>>,
    \* the BEQ in word 7 is copied to the last word of memory and taken there
    Flatten(<<NOP32(28), LDR32(1, 0), LDR32(2, 1), ADD32(4, 1, 1), LDR32(3, 4),
              STR32(2, 3), JMP32(128 * 1024 - 4), BEQ32(0, 0, 65532), NOP32(0),
              NOP32(0), NOP32(0), NOP32(0), NOP32(0), NOP32(0),
              NOP32(128 * 1024 - 4)>>)
}

GameFilesHdr == {
    \* a store in range through a register, an ADD, SETPIXEL, and the opcodes 6
    \* and 7 of the later variant
    Flatten(<<NOP32(8), LDR32(1, 0), STR32(1, 1), ADD32(2, 1, 1), W32(5, 163, 240, 15),
              JMP32(16), BEQ32(0, 0, 16)>>),
    \* a load, and a store, two bytes below the top of memory
    Flatten(<<NOP32(64 * 1024 - 2), LDR32(1, 0), LDR32(2, 1)>>),
    \* with one byte of a trailing partial word
    Flatten(<<NOP32(64 * 1024 - 2), LDR32(1, 0), STR32(1, 1)>>) \o <<9>>
}

GameFilesPs5 == {
    \* LOAD r1, [16]; STORE r1, [32]; the word loaded (opcode 255); ADD r255, r1, r1;
    \* the word stored; SETPIXEL inside and outside the framebuffer; the opcode 6
    \* of the later variant
    Flatten(<<W64(2, 1, 0, 0, 0, 0, 0, 16), W64(3, 1, 0, 0, 0, 0, 0, 32),
              W64(255, 255, 255, 255, 255, 255, 255, 254), W64(1, 255, 1, 1, 0, 0, 0, 0),
              W64(0, 0, 0, 0, 0, 0, 0, 0), W64(4, 10, 10, 255, 0, 128, 255, 0),
              W64(4, 64, 0, 1, 2, 3, 4, 0), W64(6, 0, 0, 0, 0, 0, 0, 16)>>),
    \* LOAD four bytes below the top of memory, and three bytes of a trailing
    \* partial word
    Flatten(<<W64(2, 1, 0, 3, 255, 255, 255, 252)>>) \o <<1, 2, 3>>,
    \* STORE at 2^40
    Flatten(<<W64(3, 1, 1, 0, 0, 0, 0, 0)>>)
}

GameFiles(v) ==
    CASE v = KYTY -> GameFilesKyty [] v = HDR -> GameFilesHdr [] v = PS5 -> GameFilesPs5

(***************************************************************************)
(* Emulator                                                                *)
(***************************************************************************)
\* The write loop of load_game; [memory, raised].
RECURSIVE load_words(_, _, _, _)
load_words(v, mem, game_data, i) ==
    IF i >= Len(game_data) THEN [memory |-> mem, raised |-> FALSE]
    ELSE LET W == WordBytes(v)
             value == IF i + W <= Len(game_data)
                      THEN SubSeq(game_data, i + 1, i + W) ELSE ZeroWord(v)
             w == write_word(v, mem, ToBytes(i, W), value)
         IN  IF w.raised THEN w ELSE load_words(v, w.memory, game_data, i + W)

\* The instructions list of load_demo, as the words it writes.  The operands
\* are or-ed in unmasked: 64 << 16 and 255 << 16 reach into the Rd field of the
\* MOVs of the first variant, 20 << 20 and 30 << 20 reach bit 24 (already set in
\* the opcode 5) in the second.
DemoInstructions(v) ==
    CASE v = KYTY ->
            <<W32(1, 64, 0, 0),          \* (1 << 24) | (0 << 20) | (64 << 16)
              W32(1, 16 + 64, 0, 0),     \* (1 << 24) | (1 << 20) | (64 << 16)
              W32(1, 32 + 1, 0, 0),      \* (1 << 24) | (2 << 20) | (1 << 16)
              W32(1, 48 + 1, 0, 0),      \* (1 << 24) | (3 << 20) | (1 << 16)
              W32(5, 0, 16 + 14, 7),     \* (5 << 24) | (1 << 12) | (7 << 9) | 7
              W32(2, 0, 32, 0),          \* (2 << 24) | (0 << 20) | (0 << 16) | (2 << 12)
              W32(2, 16 + 1, 48, 0),     \* (2 << 24) | (1 << 20) | (1 << 16) | (3 << 12)
              W32(7, 4, 0, 16),          \* (7 << 24) | (0 << 20) | (4 << 16) | 16
              W32(7, 16 + 4, 0, 24),     \* (7 << 24) | (1 << 20) | (4 << 16) | 24
              W32(6, 0, 0, 16),          \* (6 << 24) | 16
              W32(1, 255, 0, 0),         \* (1 << 24) | (2 << 20) | (255 << 16)
              W32(6, 0, 0, 16),
              W32(1, 255, 0, 0),         \* (1 << 24) | (3 << 20) | (255 << 16)
              W32(6, 0, 0, 16)>>
      [] v = HDR ->
            <<W32(1, 10, 0, 0),          \* (1 << 24) | (0 << 20) | (10 << 16)
              W32(5, 170, 240, 15),      \* (5 << 24) | (10 << 20) | (10 << 16) | (15 << 12) | 15
              W32(5, 64 + 20, 15, 15),   \* (5 << 24) | (20 << 20) | (20 << 16) | (15 << 8) | 15
              W32(5, 224 + 30, 0, 255)>> \* (5 << 24) | (30 << 20) | (30 << 16) | (15 << 4) | 15
      [] v = PS5 ->
            <<W64(4, 10, 10, 255, 0, 0, 255, 0), W64(4, 20, 20, 0, 255, 0, 255, 0),
              W64(4, 30, 30, 0, 0, 255, 255, 0)>>

RECURSIVE write_instructions(_, _, _, _)
write_instructions(v, mem, instructions, i) ==
    IF i >= Len(instructions) THEN mem
    ELSE write_instructions(v,
            write_word(v, mem, ToBytes(i * WordBytes(v), WordBytes(v)),
                       instructions[i + 1]).memory,
            instructions, i + 1)

put(queue, events) == queue \o events

Init ==
    /\ variant \in Variants
    /\ registers = [r \in 0..(NumRegisters(variant) - 1) |-> ZeroWord(variant)]
    /\ pc = 0
    /\ memory = <<>>
    /\ is_running = FALSE
    /\ game_loaded = FALSE
    /\ log_queue = <<>>
    /\ status_queue = <<>>
    /\ loop_at = "run_cycle"
    /\ thread_alive = TRUE
    /\ run_state = "Idle"
    /\ prev_state = "Idle"
    /\ cycles = 0
    /\ loads = 0
    /\ op = "__init__"
    /\ ir = <<>>
    /\ framebuffer = <<>>

\* A toolbar callback runs on the Tk thread between steps of the update thread.
Callback(name) ==
    /\ Len(log_queue) < MaxPending
    /\ op' = name
    /\ ir' = <<>>
    /\ prev_state' = run_state
    /\ UNCHANGED <<variant, loop_at, thread_alive, cycles, framebuffer>>

\* load_game and load_demo, counted.
LoadCallback(name) ==
    /\ loads < MaxLoads
    /\ loads' = loads + 1
    /\ Callback(name)

load_game ==
    \E game_data \in GameFiles(variant) :
        LET w == load_words(variant, memory, game_data, 0)
            noun == IF variant = PS5 THEN "game" ELSE "program"
            Noun == IF variant = PS5 THEN "Game" ELSE "Program"
        IN  /\ LoadCallback("load_game")
            /\ memory' = w.memory
            /\ IF w.raised
               THEN /\ log_queue' = put(log_queue, <<<<"warning", "Loading " \o noun \o "...">>>>)
                    /\ UNCHANGED <<game_loaded, status_queue>>
               ELSE /\ game_loaded' = TRUE
                    /\ log_queue' = put(log_queue,
                            <<<<"warning", "Loading " \o noun \o "...">>,
                              <<"success", Noun \o " loaded successfully.">>>>)
                    /\ status_queue' = put(status_queue, <<<<Noun \o " loaded", "success">>>>)
            /\ UNCHANGED <<registers, pc, is_running, run_state>>

load_demo ==
    LET written == write_instructions(variant, memory, DemoInstructions(variant), 0)
    IN  /\ LoadCallback("load_demo")
        /\ memory' = IF variant = KYTY
                     THEN write_uint32_kyty(written, ToBytes(4 * 4, 4), ToBytes(127, 4)).memory
                     ELSE written
        /\ game_loaded' = TRUE
        /\ log_queue' = put(log_queue,
                <<<<"success", IF variant = KYTY THEN "Bouncing pixel demo loaded."
                               ELSE "Demo program loaded.">>>>)
        /\ UNCHANGED <<registers, pc, is_running, status_queue, run_state>>

\* Emulator.start, given the value of self.game_loaded it tests.
Start(loaded) ==
    /\ Callback("start")
    /\ UNCHANGED loads
    /\ IF ~loaded
       THEN /\ log_queue' = put(log_queue,
                    <<<<"error", IF variant = PS5 THEN "No game loaded!"
                                 ELSE "No program loaded!">>>>)
            /\ UNCHANGED <<is_running, status_queue, run_state>>
       ELSE /\ is_running' = TRUE
            /\ run_state' = "Running"
            /\ log_queue' = put(log_queue, <<<<"success", "Emulator started.">>>>)
            /\ status_queue' = put(status_queue, <<<<"Running", "success">>>>)
    /\ UNCHANGED <<registers, pc, memory, game_loaded>>

\* start without its test of game_loaded.
start_unguarded == Start(TRUE)

\* start that reports its refusal on the status queue as well.
start_reports_status ==
    /\ Callback("start")
    /\ UNCHANGED loads
    /\ IF ~game_loaded
       THEN /\ log_queue' = put(log_queue, <<<<"error", "No program loaded!">>>>)
            /\ status_queue' = put(status_queue, <<<<"No program", "error">>>>)
            /\ UNCHANGED <<is_running, run_state>>
       ELSE /\ is_running' = TRUE
            /\ run_state' = "Running"
            /\ log_queue' = put(log_queue, <<<<"success", "Emulator started.">>>>)
            /\ status_queue' = put(status_queue, <<<<"Running", "success">>>>)
    /\ UNCHANGED <<registers, pc, memory, game_loaded>>

\* start that takes a halted machine for a finished one and refuses it.
start_once == Start(game_loaded /\ run_state # "Halted")

start == Start(game_loaded)

\* pause that rewinds the program counter as stop does.
pause_resets_pc ==
    /\ Callback("pause")
    /\ UNCHANGED loads
    /\ is_running' = FALSE
    /\ pc' = 0
    /\ run_state' = "Paused"
    /\ log_queue' = put(log_queue, <<<<"warning", "Emulator paused.">>>>)
    /\ status_queue' = put(status_queue, <<<<"Paused", "warning">>>>)
    /\ UNCHANGED <<registers, memory, game_loaded>>

pause ==
    /\ Callback("pause")
    /\ UNCHANGED loads
    /\ is_running' = FALSE
    /\ run_state' = "Paused"
    /\ log_queue' = put(log_queue, <<<<"warning", "Emulator paused.">>>>)
    /\ status_queue' = put(status_queue, <<<<"Paused", "warning">>>>)
    /\ UNCHANGED <<registers, pc, memory, game_loaded>>

\* stop that forgets to reset the program counter.
stop_keeps_pc ==
    /\ Callback("stop")
    /\ UNCHANGED loads
    /\ is_running' = FALSE
    /\ run_state' = "Halted"
    /\ log_queue' = put(log_queue, <<<<"error", "Emulator stopped.">>>>)
    /\ status_queue' = put(status_queue, <<<<"Stopped", "error">>>>)
    /\ UNCHANGED <<registers, pc, memory, game_loaded>>

stop ==
    /\ Callback("stop")
    /\ UNCHANGED loads
    /\ is_running' = FALSE
    /\ pc' = 0
    /\ run_state' = "Halted"
    /\ log_queue' = put(log_queue, <<<<"error", "Emulator stopped.">>>>)
    /\ status_queue' = put(status_queue, <<<<"Stopped", "error">>>>)
    /\ UNCHANGED <<registers, memory, game_loaded>>

\* run_cycle without its halt test.
AtTop_never(v, p) == FALSE

\* The halt test with > for >=.
AtTop_strict(v, p) == Less(MemLen(v), ToBytes(p, Len(MemLen(v))))

\* self.cpu.pc >= len(self.memory.memory)
AtTop(v, p) == ~Less(ToBytes(p, Len(MemLen(v))), MemLen(v))

\* Emulator.run_cycle, called by update_loop on the update thread, given the
\* value of self.is_running it tests.  Executed instructions are counted
\* against MaxCycles, or left uncounted and unbounded.
RunCycleCounted(running, counted) ==
    /\ thread_alive
    /\ loop_at = "run_cycle"
    /\ (running /\ counted) => cycles < MaxCycles
    /\ op' = "run_cycle"
    /\ prev_state' = run_state
    /\ UNCHANGED <<variant, game_loaded, loads, framebuffer>>
    /\ IF ~running
       THEN /\ loop_at' = "update"
            /\ ir' = <<>>
            /\ UNCHANGED <<registers, pc, memory, is_running, log_queue, status_queue,
                           thread_alive, run_state, cycles>>
       ELSE LET fetch == read_word(variant, memory, ToBytes(pc, WordBytes(variant)))
                r == execute_instruction(variant, fetch.value, registers, memory, pc)
            IN  /\ cycles' = IF counted THEN cycles + 1 ELSE cycles
                /\ ir' = IF fetch.raised THEN <<>> ELSE fetch.value
                /\ IF fetch.raised \/ r.raised
                   THEN /\ thread_alive' = FALSE
                        /\ UNCHANGED <<registers, pc, memory, is_running, log_queue,
                                       status_queue, loop_at, run_state>>
                   ELSE /\ registers' = r.registers
                        /\ memory' = r.memory
                        /\ loop_at' = "update"
                        /\ UNCHANGED thread_alive
                        /\ IF AtTop(variant, r.pc)
                           THEN /\ is_running' = FALSE
                                /\ pc' = 0
                                /\ run_state' = "Halted"
                                /\ log_queue' = put(log_queue,
                                        r.log \o <<<<"error", "Emulator stopped.">>>>)
                                /\ status_queue' = put(status_queue, <<<<"Stopped", "error">>>>)
                           ELSE /\ pc' = r.pc
                                /\ log_queue' = put(log_queue, r.log)
                                /\ UNCHANGED <<is_running, status_queue, run_state>>

RunCycle(running) == RunCycleCounted(running, TRUE)

\* run_cycle without its test of is_running.
run_cycle_unguarded == RunCycle(TRUE)

run_cycle == RunCycle(is_running)

\* The rest of an iteration of update_loop: update_canvas reads the
\* framebuffer, pc and registers; update_logs and update_status empty the queues.
update_logs_status ==
    /\ thread_alive
    /\ loop_at = "update"
    /\ log_queue' = <<>>
    /\ status_queue' = <<>>
    /\ loop_at' = "run_cycle"
    /\ op' = "update"
    /\ ir' = <<>>
    /\ prev_state' = run_state
    /\ UNCHANGED <<variant, registers, pc, memory, is_running, game_loaded, thread_alive,
                   run_state, cycles, loads, framebuffer>>

Next ==
    \/ load_game
    \/ load_demo
    \/ start
    \/ pause
    \/ stop
    \/ run_cycle
    \/ update_logs_status

Spec == Init /\ [][Next]_vars

\* The machine left to run: programs are loaded and started, and nobody
\* presses Pause or Stop.
NextRun ==
    \/ load_game
    \/ load_demo
    \/ start
    \/ run_cycle
    \/ update_logs_status

SpecRun == Init /\ [][NextRun]_vars

\* The machine loaded, started, paused and resumed, and never stopped by the
\* user: it halts only by running into the top of memory.
NextPause ==
    \/ load_game
    \/ load_demo
    \/ start
    \/ pause
    \/ run_cycle
    \/ update_logs_status

SpecPause == Init /\ [][NextPause]_vars

\* The machine loaded, started, stopped and started again, and never paused.
NextStop ==
    \/ load_game
    \/ load_demo
    \/ start
    \/ stop
    \/ run_cycle
    \/ update_logs_status

SpecStop == Init /\ [][NextStop]_vars

(***************************************************************************)
(* The machine left to run to the top of memory.  update_loop is a loop    *)
(* `while self.running` on a thread of its own that sleeps at most one     *)
(* frame per iteration, so each of its two steps is taken when it stays    *)
(* enabled (weak fairness); once an exception has ended the thread neither *)
(* is enabled again.  The 64KB machine reaches its top in 16384 steps,     *)
(* which are not counted against MaxCycles here.                           *)
(***************************************************************************)
InitLive == Init /\ variant = HDR

run_cycle_to_top == RunCycleCounted(is_running, FALSE)

NextLive ==
    \/ load_game
    \/ load_demo
    \/ start
    \/ run_cycle_to_top
    \/ update_logs_status

SpecLive ==
    /\ InitLive
    /\ [][NextLive]_vars
    /\ WF_vars(run_cycle_to_top)
    /\ WF_vars(update_logs_status)

(***************************************************************************)
(* The two threads.  The toolbar callbacks run on the Tk thread, run_cycle *)
(* on the update thread, and no lock is taken by either: a callback can    *)
(* run between any two statements of run_cycle.  Here run_cycle is taken   *)
(* in its three statements: the test of is_running, the fetch with         *)
(* execute_instruction, and the halt test.  (The interpreter can switch    *)
(* threads inside these as well; every behaviour below is one of the       *)
(* program's.)                                                             *)
(***************************************************************************)
\* if not self.is_running: return
run_cycle_test ==
    /\ thread_alive
    /\ loop_at = "run_cycle"
    /\ is_running => cycles < MaxCycles
    /\ loop_at' = IF is_running THEN "execute" ELSE "update"
    /\ op' = "run_cycle_test"
    /\ ir' = <<>>
    /\ prev_state' = run_state
    /\ UNCHANGED <<variant, registers, pc, memory, is_running, game_loaded, log_queue,
                   status_queue, thread_alive, run_state, cycles, loads, framebuffer>>

\* instruction = self.memory.read_uint32(self.cpu.pc)
\* self.cpu.execute_instruction(instruction)
run_cycle_execute ==
    /\ thread_alive
    /\ loop_at = "execute"
    /\ op' = "run_cycle_execute"
    /\ prev_state' = run_state
    /\ cycles' = cycles + 1
    /\ UNCHANGED <<variant, is_running, game_loaded, status_queue, run_state, loads,
                   framebuffer>>
    /\ LET fetch == read_word(variant, memory, ToBytes(pc, WordBytes(variant)))
           r == execute_instruction(variant, fetch.value, registers, memory, pc)
       IN  /\ ir' = IF fetch.raised THEN <<>> ELSE fetch.value
           /\ IF fetch.raised \/ r.raised
              THEN /\ thread_alive' = FALSE
                   /\ UNCHANGED <<registers, pc, memory, log_queue, loop_at>>
              ELSE /\ registers' = r.registers
                   /\ memory' = r.memory
                   /\ pc' = r.pc
                   /\ log_queue' = put(log_queue, r.log)
                   /\ loop_at' = "check"
                   /\ UNCHANGED thread_alive

\* if self.cpu.pc >= len(self.memory.memory): self.stop()
run_cycle_check ==
    /\ thread_alive
    /\ loop_at = "check"
    /\ loop_at' = "update"
    /\ op' = "run_cycle_check"
    /\ ir' = <<>>
    /\ prev_state' = run_state
    /\ UNCHANGED <<variant, registers, memory, game_loaded, thread_alive, cycles, loads,
                   framebuffer>>
    /\ IF AtTop(variant, pc)
       THEN /\ is_running' = FALSE
            /\ pc' = 0
            /\ run_state' = "Halted"
            /\ log_queue' = put(log_queue, <<<<"error", "Emulator stopped.">>>>)
            /\ status_queue' = put(status_queue, <<<<"Stopped", "error">>>>)
       ELSE UNCHANGED <<is_running, pc, run_state, log_queue, status_queue>>

NextThreads ==
    \/ load_game
    \/ load_demo
    \/ start
    \/ pause
    \/ stop
    \/ run_cycle_test
    \/ run_cycle_execute
    \/ run_cycle_check
    \/ update_logs_status

SpecThreads == Init /\ [][NextThreads]_vars

(***************************************************************************)
(* The first iteration, v1.py.  Its CPU decodes nothing: every step logs   *)
(* the word fetched and advances pc by 8.  Memory is an array of 64-bit    *)
(* words indexed by address // 8, kept here as the bytes of those words.   *)
(* The framebuffer is an array of its own, and run_cycle sets a random     *)
(* pixel of it.  The emulator puts its events on the module's log_queue    *)
(* and status_queue, which nothing empties (the window reads two queues of *)
(* its own); log_queue and status_queue are those queues here.             *)
(***************************************************************************)
\* Program files chosen by the user.
GameFilesV1 == {
    \* two words
    Flatten(<<W64(0, 0, 0, 0, 0, 0, 0, 1), W64(1, 2, 3, 4, 5, 6, 7, 8)>>),
    \* one word and a byte of a trailing partial word
    Flatten(<<W64(255, 0, 0, 0, 0, 0, 0, 16)>>) \o <<9>>
}

\* The values random.randint can return for (x, y) and for (r, g, b), two of each.
RandomPixels == {<<0, 0>>, <<63, 63>>}
RandomColours == {<<0, 0, 0>>, <<255, 255, 255>>}

\* format(n, 'x') for n in 0..15, and format(b, '02x') for a byte.
HexDigit(n) ==
    <<"0", "1", "2", "3", "4", "5", "6", "7", "8", "9", "a", "b", "c", "d", "e", "f">>[n + 1]
HexByte(b) == HexDigit(b \div 16) \o HexDigit(b % 16)

\* f"{instruction:016x}"
Hex016(word) ==
    HexByte(word[8]) \o HexByte(word[7]) \o HexByte(word[6]) \o HexByte(word[5])
    \o HexByte(word[4]) \o HexByte(word[3]) \o HexByte(word[2]) \o HexByte(word[1])

\* Memory.read: self.memory[address // 8]
read_v1(mem, address) == LoadBytes(mem, (address \div 8) * 8, 8)

\* Memory.write: self.memory[address // 8] = value
write_v1(mem, address, value) == StoreBytes(mem, (address \div 8) * 8, value)

\* The write loop of load_game.
RECURSIVE load_words_v1(_, _, _)
load_words_v1(mem, game_data, i) ==
    IF i >= Len(game_data) THEN mem
    ELSE LET value == IF i + 8 <= Len(game_data)
                      THEN SubSeq(game_data, i + 1, i + 8) ELSE ZeroWord64
         IN  load_words_v1(write_v1(mem, i, value), game_data, i + 8)

InitV1 ==
    /\ variant = V1
    /\ registers = [r \in 0..(NumRegisters(V1) - 1) |-> ZeroWord64]
    /\ pc = 0
    /\ memory = <<>>
    /\ framebuffer = <<>>
    /\ is_running = FALSE
    /\ game_loaded = FALSE
    /\ log_queue = <<>>
    /\ status_queue = <<>>
    /\ loop_at = "run_cycle"
    /\ thread_alive = TRUE
    /\ run_state = "Idle"
    /\ prev_state = "Idle"
    /\ cycles = 0
    /\ loads = 0
    /\ op = "__init__"
    /\ ir = <<>>

\* A toolbar callback of v1.py.
CallbackV1(name) ==
    /\ Len(log_queue) < MaxEventsV1
    /\ op' = name
    /\ ir' = <<>>
    /\ prev_state' = run_state
    /\ UNCHANGED <<variant, registers, loop_at, thread_alive, cycles, framebuffer>>

load_game_v1 ==
    \E game_data \in GameFilesV1 :
        /\ loads < MaxLoads
        /\ loads' = loads + 1
        /\ CallbackV1("load_game")
        /\ memory' = load_words_v1(memory, game_data, 0)
        /\ game_loaded' = TRUE
        /\ log_queue' = put(log_queue, <<<<"warning", "Loading game...">>,
                                         <<"success", "Game loaded successfully.">>>>)
        /\ status_queue' = put(status_queue, <<<<"Game loaded", "success">>>>)
        /\ UNCHANGED <<pc, is_running, run_state>>

start_v1 ==
    /\ CallbackV1("start")
    /\ IF ~game_loaded
       THEN /\ log_queue' = put(log_queue, <<<<"error", "No game loaded!">>>>)
            /\ UNCHANGED <<is_running, status_queue, run_state>>
       ELSE /\ is_running' = TRUE
            /\ run_state' = "Running"
            /\ log_queue' = put(log_queue, <<<<"success", "Emulator started.">>>>)
            /\ status_queue' = put(status_queue, <<<<"Running", "success">>>>)
    /\ UNCHANGED <<pc, memory, game_loaded, loads>>

pause_v1 ==
    /\ CallbackV1("pause")
    /\ is_running' = FALSE
    /\ run_state' = "Paused"
    /\ log_queue' = put(log_queue, <<<<"warning", "Emulator paused.">>>>)
    /\ status_queue' = put(status_queue, <<<<"Paused", "warning">>>>)
    /\ UNCHANGED <<pc, memory, game_loaded, loads>>

stop_v1 ==
    /\ CallbackV1("stop")
    /\ is_running' = FALSE
    /\ pc' = 0
    /\ run_state' = "Halted"
    /\ log_queue' = put(log_queue, <<<<"error", "Emulator stopped.">>>>)
    /\ status_queue' = put(status_queue, <<<<"Stopped", "error">>>>)
    /\ UNCHANGED <<memory, game_loaded, loads>>

\* Emulator.run_cycle of v1.py, called by update_loop on the update thread.
run_cycle_v1 ==
    /\ thread_alive
    /\ loop_at = "run_cycle"
    /\ is_running => (cycles < MaxCycles /\ Len(log_queue) < MaxEventsV1)
    /\ op' = "run_cycle"
    /\ prev_state' = run_state
    /\ loop_at' = "update"
    /\ UNCHANGED <<variant, registers, memory, game_loaded, loads, thread_alive>>
    /\ IF ~is_running
       THEN /\ ir' = <<>>
            /\ UNCHANGED <<pc, is_running, log_queue, status_queue, run_state, cycles,
                           framebuffer>>
       ELSE LET instruction == read_v1(memory, pc)
                executing == <<"success", "Executing instruction: 0x" \o Hex016(instruction)>>
            IN  \E xy \in RandomPixels, rgb \in RandomColours :
                    /\ cycles' = cycles + 1
                    /\ ir' = instruction
                    /\ framebuffer' = StoreBytes(framebuffer, (xy[2] * 64 + xy[1]) * 4,
                                                  <<rgb[1], rgb[2], rgb[3], 255>>)
                    /\ IF AtTop(V1, pc + 8)
                       THEN /\ is_running' = FALSE
                            /\ pc' = 0
                            /\ run_state' = "Halted"
                            /\ log_queue' = put(log_queue,
                                    <<executing, <<"error", "Emulator stopped.">>>>)
                            /\ status_queue' = put(status_queue, <<<<"Stopped", "error">>>>)
                       ELSE /\ pc' = pc + 8
                            /\ log_queue' = put(log_queue, <<executing>>)
                            /\ UNCHANGED <<is_running, status_queue, run_state>>

\* The rest of an iteration of update_loop of v1.py: update_canvas shows the
\* framebuffer; update_logs and update_status find their own queues empty.
update_v1 ==
    /\ thread_alive
    /\ loop_at = "update"
    /\ loop_at' = "run_cycle"
    /\ op' = "update"
    /\ ir' = <<>>
    /\ prev_state' = run_state
    /\ UNCHANGED <<variant, registers, pc, memory, is_running, game_loaded, log_queue,
                   status_queue, thread_alive, run_state, cycles, loads, framebuffer>>

NextV1 ==
    \/ load_game_v1
    \/ start_v1
    \/ pause_v1
    \/ stop_v1
    \/ run_cycle_v1
    \/ update_v1

SpecV1 == InitV1 /\ [][NextV1]_vars

(***************************************************************************)
(* Properties.  A step is recognised by the operation it records in op';   *)
(* the unprimed variables are the state the operation was called in.       *)
(***************************************************************************)
\* queue2 is queue with exactly one more event, of the given severity.
OneMore(queue, queue2, severity) ==
    /\ Len(queue2) = Len(queue) + 1
    /\ SubSeq(queue2, 1, Len(queue)) = queue
    /\ queue2[Len(queue2)][1] = severity

\* The state a program can see: run-state flag, pc, registers, memory.
MachineUnchanged ==
    /\ is_running' = is_running
    /\ pc' = pc
    /\ registers' = registers
    /\ memory' = memory

\* C1: start() called before any load_game or load_demo leaves is_running,
\* pc, registers and memory as they were, puts exactly one event, of severity
\* error, on the log queue and nothing on the status queue.
C1_StartBeforeLoad ==
    [][(op' = "start" /\ loads = 0) =>
            /\ MachineUnchanged
            /\ OneMore(log_queue, log_queue', "error")
            /\ status_queue' = status_queue]_vars

\* start() has just been refused on a machine nothing was loaded into.
C1_Witness ==
    /\ op = "start"
    /\ loads = 0
    /\ ~is_running
    /\ log_queue = <<<<"error", IF variant = PS5 THEN "No game loaded!"
                                ELSE "No program loaded!">>>>
    /\ status_queue = <<>>

\* C2: the machine is running only if a program has been loaded, and
\* game_loaded, once true, never becomes false again.
C2_RunningOnlyIfLoaded ==
    /\ [](is_running => game_loaded)
    /\ [][game_loaded => game_loaded']_vars

\* A loaded machine is running, has executed instructions and has been stopped
\* and started again before.
C2_Witness ==
    /\ is_running
    /\ game_loaded
    /\ op = "start"
    /\ prev_state = "Halted"
    /\ cycles > 0

\* C3 as stated: stop() leaves the machine not running with pc = 0, and a
\* stop() on a machine that stop() already halted has no further observable
\* effect: is_running, pc, registers, memory and the emitted events are those
\* of the first call.
C3_StopIdempotentWithEvents ==
    [][op' = "stop" =>
            /\ ~is_running'
            /\ pc' = 0
            /\ run_state = "Halted" =>
                    /\ MachineUnchanged
                    /\ log_queue' = log_queue
                    /\ status_queue' = status_queue]_vars

\* C3 amended: stop() in any run-state leaves the machine not running with
\* pc = 0 and registers, memory and game_loaded untouched, so a repeated stop()
\* leaves is_running, pc, registers and memory as the first left them; every
\* call, repeated or not, emits one more error event and one more Stopped
\* status.
C3_StopResets ==
    [][op' = "stop" =>
            /\ ~is_running'
            /\ pc' = 0
            /\ registers' = registers
            /\ memory' = memory
            /\ game_loaded' = game_loaded
            /\ run_state = "Halted" => MachineUnchanged
            /\ log_queue' = Append(log_queue, <<"error", "Emulator stopped.">>)
            /\ status_queue' = Append(status_queue, <<"Stopped", "error">>)]_vars

\* stop() has been called again on a machine that ran and was halted.
C3_Witness ==
    /\ op = "stop"
    /\ prev_state = "Halted"
    /\ cycles > 0
    /\ ~is_running
    /\ pc = 0
    /\ log_queue = <<<<"error", "Emulator stopped.">>>>

\* C4: run_cycle() called while the machine is not running changes nothing:
\* pc, registers, memory, is_running, game_loaded and both queues stay.
C4_StepNotRunningIsNoOp ==
    [][(op' = "run_cycle" /\ ~is_running) =>
            /\ MachineUnchanged
            /\ game_loaded' = game_loaded
            /\ log_queue' = log_queue
            /\ status_queue' = status_queue]_vars

\* run_cycle() has been called on a machine paused in the middle of a program.
C4_Witness ==
    /\ op = "run_cycle"
    /\ prev_state = "Paused"
    /\ run_state = "Paused"
    /\ game_loaded
    /\ pc > 0
    /\ thread_alive

\* run_cycle() was called on a running machine and fetched the word ir'.
Executed == op' = "run_cycle" /\ is_running /\ ir' # <<>>

\* The opcode byte of an instruction word: bits 24..31 or 56..63.
OpcodeOf(word) == Field(word, 8 * Len(word) - 8, 8)

\* pc >= memory size, for a pc below 2^31 (16GB is above every such pc).
ReachesTop(p) ==
    CASE variant = KYTY -> p >= 128 * 1024
      [] variant = HDR -> p >= 64 * 1024
      [] variant = PS5 -> FALSE

\* The pc a step ends with when its instruction left p.
Settled(p) == IF ReachesTop(p) THEN 0 ELSE p

\* The events of stop() have been emitted last.
StopEvents ==
    /\ Len(log_queue') > Len(log_queue)
    /\ log_queue'[Len(log_queue')] = <<"error", "Emulator stopped.">>
    /\ status_queue' = Append(status_queue, <<"Stopped", "error">>)

\* The instruction is the JMP, or a taken BEQ, of the variant that has them.
IsJmp == variant = KYTY /\ OpcodeOf(ir') = 6

IsTakenBeq ==
    /\ variant = KYTY
    /\ OpcodeOf(ir') = 7
    /\ registers[Field(ir', 20, 4)] = registers[Field(ir', 16, 4)]

\* C5: a step of a running machine whose instruction leaves pc >= memory size
\* (by the advance past the last word or by a JMP to such an address) ends as
\* stop() does: not running, pc = 0, the error log event and the Stopped
\* status emitted last, and the update thread alive (no exception).  Within
\* the bounds only the 128KB variant reaches the top of its memory.
C5_HaltAtTop ==
    [][(Executed /\ ReachesTop(execute_instruction(variant, ir', registers, memory, pc).pc)) =>
            /\ thread_alive'
            /\ ~is_running'
            /\ pc' = 0
            /\ run_state' = "Halted"
            /\ game_loaded' = game_loaded
            /\ StopEvents]_vars

\* A running machine has executed the NOP in its last word, or at an unaligned
\* pc below the top, and halted.
C5_Witness ==
    /\ op = "run_cycle"
    /\ prev_state = "Running"
    /\ run_state = "Halted"
    /\ ir = ZeroWord32
    /\ ~is_running
    /\ pc = 0
    /\ thread_alive
    /\ status_queue = <<<<"Stopped", "error">>>>

\* C6: every executed instruction that is not a JMP and not a taken BEQ
\* advances pc by the instruction width (4 or 8); a JMP and a taken BEQ set pc
\* directly.  (The step then resets a pc at or above the memory size to 0.)
C6_PcAdvanceRule ==
    [][Executed =>
            pc' = Settled(IF IsJmp THEN Field(ir', 0, 24)
                          ELSE IF IsTakenBeq
                               THEN (pc + Field(ir', 0, 16)) % (128 * 1024)
                               ELSE pc + WordBytes(variant))]_vars

\* The absolute address field of an instruction word: 24 or 48 bits.
AddressOf(word) == IF Len(word) = 4 THEN Field(word, 0, 24) ELSE ToInt(AddressField(word))

\* C7 as stated: in every variant an executed instruction with opcode 6 sets
\* pc to its address field and changes no register and no memory byte.
C7_JmpInEveryVariant ==
    [][(Executed /\ OpcodeOf(ir') = 6) =>
            /\ pc' = Settled(AddressOf(ir'))
            /\ registers' = registers
            /\ memory' = memory]_vars

\* C7 amended: in the variant that decodes opcode 6 (PS5EMU1.06.29.251.0.py)
\* execute_instruction sets pc to exactly the 24-bit address field, whatever
\* pc, registers and memory were, and emits nothing; in the other two opcode 6
\* is unknown: it emits "Unknown opcode: 6" and advances pc by the
\* instruction width.  In all three no register and no memory byte changes.
C7_Jmp ==
    [][(Executed /\ OpcodeOf(ir') = 6) =>
            LET r == execute_instruction(variant, ir', registers, memory, pc)
            IN  /\ registers' = registers
                /\ memory' = memory
                /\ thread_alive'
                /\ IF variant = KYTY
                   THEN /\ r.pc = Field(ir', 0, 24)
                        /\ r.log = <<>>
                        /\ pc' = Settled(Field(ir', 0, 24))
                   ELSE /\ r.pc = pc + WordBytes(variant)
                        /\ r.log = <<<<"error", "Unknown opcode: 6">>>>
                        /\ pc' = pc + WordBytes(variant)
                        /\ log_queue' = Append(log_queue, <<"error", "Unknown opcode: 6">>)]_vars

\* A JMP has taken the running machine to the address in its field.
C7_Witness ==
    /\ op = "run_cycle"
    /\ variant = KYTY
    /\ ir # <<>>
    /\ OpcodeOf(ir) = 6
    /\ pc = Field(ir, 0, 24)
    /\ pc > 0
    /\ is_running

\* C8: in the variant that decodes opcode 7, an executed BEQ whose two
\* registers are equal sets pc to (pc + offset) mod memory size, pc being the
\* address of the BEQ itself; one whose registers differ advances pc by 4.
\* Neither changes a register or a memory byte, and neither emits an event
\* (the step's halt at the top of memory aside).
C8_Beq ==
    [][(Executed /\ variant = KYTY /\ OpcodeOf(ir') = 7) =>
            LET r == execute_instruction(variant, ir', registers, memory, pc)
                target == IF registers[Field(ir', 20, 4)] = registers[Field(ir', 16, 4)]
                          THEN (pc + Field(ir', 0, 16)) % (128 * 1024)
                          ELSE pc + 4
            IN  /\ r.pc = target
                /\ r.log = <<>>
                /\ pc' = Settled(target)
                /\ registers' = registers
                /\ memory' = memory
                /\ thread_alive'
                /\ ~ReachesTop(target) =>
                        log_queue' = log_queue /\ status_queue' = status_queue]_vars

\* The BEQ in the last word of memory has been taken with offset 65532 and
\* wrapped to 65528.
C8_Witness ==
    /\ op = "run_cycle"
    /\ variant = KYTY
    /\ ir = BEQ32(0, 0, 65532)
    /\ pc = 65528
    /\ is_running
    /\ log_queue = <<>>

\* The highest address a whole word fits at: memory size less the word.
TopWord(v) ==
    CASE v = KYTY -> ToBytes(128 * 1024 - 4, 4)
      [] v = HDR -> ToBytes(64 * 1024 - 4, 4)
      [] v = PS5 -> <<248, 255, 255, 255, 3, 0, 0, 0>>

\* The instruction fetched is the LOAD, or the STORE, of the variant.
IsLoad == OpcodeOf(ir') = (IF variant = PS5 THEN 2 ELSE 3)

IsStore == OpcodeOf(ir') = (IF variant = PS5 THEN 3 ELSE 4)

\* The address a LOAD or STORE accesses, and the register it names.
AccessAddress ==
    IF variant = PS5 THEN AddressField(ir') ELSE registers[Field(ir', 16, 4)]

AccessRegister == IF variant = PS5 THEN Field(ir', 48, 8) ELSE Field(ir', 20, 4)

\* C9: in the two 32-bit variants a LOAD from an address A with
\* A + 4 > memory size loads 0, a STORE to such an address leaves memory as it
\* is, a fetch from a pc with pc + 4 > memory size fetches 0, and none of them
\* raises an exception (the update thread lives on).
C9_OutOfRangeIsSilent ==
    [][(op' = "run_cycle" /\ is_running /\ variant # PS5) =>
            /\ pc + 4 > (IF variant = KYTY THEN 128 * 1024 ELSE 64 * 1024) =>
                    thread_alive' /\ ir' = ZeroWord32
            /\ (Executed /\ (IsLoad \/ IsStore) /\ Less(TopWord(variant), AccessAddress)) =>
                    /\ thread_alive'
                    /\ memory' = memory
                    /\ registers' = IF IsLoad
                                    THEN [registers EXCEPT ![AccessRegister] = ZeroWord32]
                                    ELSE registers]_vars

\* Addresses A with A + K <= memory size, and values of K bytes, tried on
\* every memory the machine reaches: the first word, an unaligned address, a
\* word of the program, and the last word that fits (or, where that is above
\* 2^31, the word at 2^30).
ProbeAddresses ==
    {ToBytes(0, WordBytes(variant)), ToBytes(5, WordBytes(variant)),
     ToBytes(16, WordBytes(variant)),
     IF variant = PS5 THEN ToBytes(1073741824, 8) ELSE TopWord(variant)}

ProbeValues ==
    IF variant = PS5
    THEN {ZeroWord64, <<1, 2, 3, 4, 5, 6, 7, 8>>, <<255, 255, 255, 255, 255, 255, 255, 255>>}
    ELSE {ZeroWord32, <<1, 2, 3, 4>>, <<255, 255, 255, 255>>}

\* mem2 is mem except, possibly, for the K bytes at A.
SameOutside(mem, mem2, A, K) ==
    \A x \in (DOMAIN mem \cup DOMAIN mem2) \ (A..(A + K - 1)) : ByteAt(mem2, x) = ByteAt(mem, x)

\* C10: a write of a K-byte value v to an address A with A + K <= memory
\* size, followed by a read of the word at A, returns v, and the write changes
\* no byte outside A .. A+K-1: of every memory a loaded, running program
\* reaches, for the addresses and values above, and of every STORE it
\* executes in range.
C10_WriteThenRead ==
    /\ [](\A A \in ProbeAddresses : \A v \in ProbeValues :
            LET w == write_word(variant, memory, A, v)
            IN  /\ ~w.raised
                /\ read_word(variant, w.memory, A) = [value |-> v, raised |-> FALSE]
                /\ SameOutside(memory, w.memory, ToInt(A), WordBytes(variant)))
    /\ [][(Executed /\ IsStore /\ ~Less(TopWord(variant), AccessAddress)) =>
            /\ thread_alive'
            /\ read_word(variant, memory', AccessAddress) =
                    [value |-> registers[AccessRegister], raised |-> FALSE]
            /\ SameOutside(memory, memory', ToInt(AccessAddress), WordBytes(variant))]_vars

\* A STORE has put a non-zero word into the last word of memory, over zeros.
C10_Witness ==
    /\ op = "run_cycle"
    /\ variant = KYTY
    /\ ir = STR32(2, 3)
    /\ registers[3] = ToBytes(128 * 1024 - 4, 4)
    /\ registers[2] = BEQ32(0, 0, 65532)
    /\ LoadBytes(memory, 128 * 1024 - 4, 4) = registers[2]
    /\ thread_alive

(***************************************************************************)
(* Loading a program file                                                  *)
(***************************************************************************)
\* The length of a file rounded up to a whole number of words.
PaddedLen(v, game_data) ==
    ((Len(game_data) + WordBytes(v) - 1) \div WordBytes(v)) * WordBytes(v)

\* Memory holds the file byte for byte from offset 0, and zeros from the end
\* of the file up to the next word boundary.
HoldsFile(v, mem, game_data) ==
    /\ \A i \in 0..(Len(game_data) - 1) : ByteAt(mem, i) = game_data[i + 1]
    /\ \A i \in Len(game_data)..(PaddedLen(v, game_data) - 1) : ByteAt(mem, i) = 0

\* C11: after load_game of a file of any length L, memory byte i is byte i of
\* the file for every i < L, and the bytes from L up to the next word boundary
\* are zero: a trailing partial word keeps its bytes and is zero-padded.
C11_LoadKeepsEveryByte ==
    [][(op' = "load_game" /\ game_loaded')
       => \E game_data \in GameFiles(variant) : HoldsFile(variant, memory', game_data)]_vars

(***************************************************************************)
(* Unknown opcodes                                                         *)
(***************************************************************************)
\* The opcodes execute_instruction has a branch for.
OpcodeTable(v) == CASE v = KYTY -> 0..7 [] v = HDR -> 0..5 [] v = PS5 -> 0..4

\* C12: an executed instruction whose opcode is not in the variant's opcode
\* table emits exactly one log event, of error severity and naming the opcode,
\* changes no register and no memory byte, advances pc by the instruction
\* width and raises nothing; the machine stays running unless the advanced pc
\* has reached the top of memory, where the step halts as for any instruction.
C12_UnknownOpcode ==
    [][(Executed /\ OpcodeOf(ir') \notin OpcodeTable(variant)) =>
            LET event == <<"error", "Unknown opcode: " \o ToString(OpcodeOf(ir'))>>
                top == ReachesTop(pc + WordBytes(variant))
            IN  /\ thread_alive'
                /\ registers' = registers
                /\ memory' = memory
                /\ pc' = Settled(pc + WordBytes(variant))
                /\ is_running' = ~top
                /\ log_queue' = log_queue \o <<event>>
                                 \o (IF top THEN <<<<"error", "Emulator stopped.">>>> ELSE <<>>)
                /\ status_queue' = status_queue
                                    \o (IF top THEN <<<<"Stopped", "error">>>> ELSE <<>>)]_vars

\* A running machine has executed a word with opcode 255 (opcode 6 where the
\* table ends before it) and runs on at the next word.
C12_Witness ==
    /\ op = "run_cycle"
    /\ ir # <<>>
    /\ OpcodeOf(ir) \in {6, 255}
    /\ OpcodeOf(ir) \notin OpcodeTable(variant)
    /\ log_queue = <<<<"error", "Unknown opcode: " \o ToString(OpcodeOf(ir))>>>>
    /\ is_running
    /\ pc > 0
    /\ thread_alive

(***************************************************************************)
(* SETPIXEL                                                                *)
(***************************************************************************)
\* The opcode of SETPIXEL.
SetPixelOpcode(v) == IF v = PS5 THEN 4 ELSE 5

\* The coordinate fields and raw channel fields of a SETPIXEL word, the width
\* of a channel field in bits, and the width and height of the framebuffer.
SetPixelFields(v, word) ==
    CASE v = KYTY ->
            [x |-> Field(word, 20, 8), y |-> Field(word, 12, 8),
             raw |-> <<Field(word, 9, 3), Field(word, 6, 3), Field(word, 3, 3),
                       Field(word, 0, 3)>>,
             w |-> 3, fb_width |-> 128, fb_height |-> 128]
      [] v = HDR ->
            [x |-> Field(word, 20, 4), y |-> Field(word, 16, 4),
             raw |-> <<Field(word, 12, 4), Field(word, 8, 4), Field(word, 4, 4),
                       Field(word, 0, 4)>>,
             w |-> 4, fb_width |-> 64, fb_height |-> 64]
      [] v = PS5 ->
            [x |-> Field(word, 48, 8), y |-> Field(word, 40, 8),
             raw |-> <<Field(word, 32, 8), Field(word, 24, 8), Field(word, 16, 8),
                       Field(word, 8, 8)>>,
             w |-> 8, fb_width |-> 64, fb_height |-> 64]

IsSetPixel == Executed /\ OpcodeOf(ir') = SetPixelOpcode(variant)

\* C13: an executed SETPIXEL with x < fb_width and y < fb_height writes exactly
\* the four bytes [r*m, g*m, b*m, a*m], m = floor(255 / (2^w - 1)) for channel
\* fields of w bits (36, 17, 1), at address y*fb_width*4 + x*4 and changes no
\* other byte; with x or y outside, memory is unchanged.  Every byte written is
\* in 0..255, a raw 0 gives 0 and a raw 15 of a 4-bit field gives 255.  No
\* register changes and nothing is raised.
C13_SetPixel ==
    [][IsSetPixel =>
            LET f == SetPixelFields(variant, ir')
                m == 255 \div (2 ^ f.w - 1)
                addr == f.y * f.fb_width * 4 + f.x * 4
                inside == f.x < f.fb_width /\ f.y < f.fb_height
                touched == DOMAIN memory \cup DOMAIN memory' \cup addr..(addr + 3)
            IN  /\ thread_alive'
                /\ registers' = registers
                /\ m \in {36, 17, 1}
                /\ \A k \in 1..4 :
                        /\ f.raw[k] * m \in 0..255
                        /\ f.raw[k] = 0 => f.raw[k] * m = 0
                        /\ (f.w = 4 /\ f.raw[k] = 15) => f.raw[k] * m = 255
                /\ IF inside
                   THEN \A a \in touched :
                            ByteAt(memory', a) = IF a \in addr..(addr + 3)
                                                 THEN f.raw[a - addr + 1] * m
                                                 ELSE ByteAt(memory, a)
                   ELSE memory' = memory]_vars

\* The 4-bit SETPIXEL at (10, 3) with channels 15, 0, 0, 15 has written
\* 255, 0, 0, 255 at 3*64*4 + 10*4.
C13_Witness ==
    /\ op = "run_cycle"
    /\ variant = HDR
    /\ ir = W32(5, 163, 240, 15)
    /\ LoadBytes(memory, 3 * 64 * 4 + 10 * 4, 4) = <<255, 0, 0, 255>>
    /\ thread_alive

(***************************************************************************)
(* The three-pixel demo                                                    *)
(***************************************************************************)
\* The words load_demo wrote are in memory, and the machine has run them all,
\* one step each from pc = 0, and nothing else.
DemoRan ==
    LET W == WordBytes(variant)
        demo == DemoInstructions(variant)
    IN  /\ \A i \in 1..Len(demo) : LoadBytes(memory, (i - 1) * W, W) = demo[i]
        /\ cycles = Len(demo)
        /\ pc = Len(demo) * W
        /\ thread_alive

\* The four bytes of the pixel (x, y) of a 64x64 framebuffer.
Pixel64(x, y) == LoadBytes(memory, y * 64 * 4 + x * 4, 4)

\* C14: on a 64x64 machine, once the three SETPIXELs of the demo program
\* built by load_demo (red at (10,10), green at (20,20), blue at (30,30)) have
\* been stepped through after start(), memory holds 255,0,0,255 at
\* 10*64*4 + 10*4, 0,255,0,255 at 20*64*4 + 20*4 and 0,0,255,255 at
\* 30*64*4 + 30*4.
C14_ThreePixels ==
    (variant \in {HDR, PS5} /\ DemoRan) =>
        /\ Pixel64(10, 10) = <<255, 0, 0, 255>>
        /\ Pixel64(20, 20) = <<0, 255, 0, 255>>
        /\ Pixel64(30, 30) = <<0, 0, 255, 255>>

(***************************************************************************)
(* The framebuffer                                                         *)
(***************************************************************************)
\* The bytes of the framebuffer: width * height * 4.
FbBytes(v) == IF v = KYTY THEN 128 * 128 * 4 ELSE 64 * 64 * 4

\* The first FbBytes bytes of memory (the non-zero ones).
MemoryWindow == [a \in {x \in DOMAIN memory : x < FbBytes(variant)} |-> memory[a]]

\* Emulator.framebuffer as update_canvas reads it: the array of its own in
\* v1.py, the reshaped slice memory[0 : width*height*4] of Memory.memory in
\* the three later files.
Framebuffer == IF variant = V1 THEN framebuffer ELSE MemoryWindow

\* C15: the framebuffer the presenter reads is at all times identical to the
\* memory bytes [0, fb_width * fb_height * 4): it is never a copy that can
\* differ from memory.
C15_FramebufferIsMemory == Framebuffer = MemoryWindow

(***************************************************************************)
(* Atomicity of a step                                                     *)
(***************************************************************************)
\* C16: run_cycle is atomic with respect to the toolbar callbacks: once a
\* stop() and the step it overlapped have both completed (the machine's last
\* transition was to Halted and no step is in flight), the machine is not
\* running and pc = 0, in every interleaving.
C16_StopOverlappingStep ==
    (run_state = "Halted" /\ loop_at \in {"run_cycle", "update"}) =>
        (~is_running /\ pc = 0)

(***************************************************************************)
(* Register indices                                                        *)
(***************************************************************************)
\* Instruction words to decode: every opcode up to 8 and opcode 255, with all
\* other bits set, all clear, and alternating.
ProbeWords(v) ==
    {[i \in 1..WordBytes(v) |-> IF i = WordBytes(v) THEN o ELSE b] :
        o \in (0..8) \cup {255}, b \in {0, 165, 255}}

\* C17: the register array has N entries, N = 16 where register fields have
\* 4 bits and 256 where they have 8, and for every instruction word (the probe
\* words, and the word fetched last) every register index the decoder uses
\* lies in 0..N-1: no instruction reads or writes outside the array.
C17_RegisterIndexInRange ==
    LET N == NumRegisters(variant)
        words == ProbeWords(variant) \cup (IF ir = <<>> THEN {} ELSE {ir})
    IN  /\ DOMAIN registers = 0..(N - 1)
        /\ N = IF WordBytes(variant) = 4 THEN 2 ^ 4 ELSE 2 ^ 8
        /\ \A word \in words : register_indices(variant, word) \subseteq 0..(N - 1)

\* An ADD into the highest register (R15, r255) has been executed.
C17_Witness ==
    /\ op = "run_cycle"
    /\ ir \in {ADD32(15, 1, 1), W64(1, 255, 1, 1, 0, 0, 0, 0)}
    /\ registers[NumRegisters(variant) - 1] # ZeroWord(variant)
    /\ thread_alive

(***************************************************************************)
(* pause                                                                   *)
(***************************************************************************)
\* C18: pause(), called in any run-state, leaves the machine not running,
\* emits exactly one log event, of warning severity, and leaves pc, registers,
\* memory and the loaded flag unchanged; a start() that follows on a loaded
\* machine therefore resumes at the same pc, with the same registers and memory.
C18_PauseKeepsMachine ==
    [][/\ op' = "pause" =>
            /\ ~is_running'
            /\ run_state' = "Paused"
            /\ OneMore(log_queue, log_queue', "warning")
            /\ pc' = pc
            /\ registers' = registers
            /\ memory' = memory
            /\ game_loaded' = game_loaded
       /\ (op' = "start" /\ run_state = "Paused" /\ game_loaded) =>
            /\ is_running'
            /\ pc' = pc
            /\ registers' = registers
            /\ memory' = memory]_vars

\* A machine paused in the middle of its program has been started again and
\* is running at the pc it was paused at.
C18_Witness ==
    /\ op = "start"
    /\ prev_state = "Paused"
    /\ run_state = "Running"
    /\ is_running
    /\ pc > 0
    /\ cycles > 0

(***************************************************************************)
(* ADD                                                                     *)
(***************************************************************************)
\* (a + b) mod 2^W for two W-bit numbers: byte i of the sum is the sum of the
\* bytes i and the carry out of byte i - 1, mod 256.
WrappedSum(a, b) ==
    LET carry[i \in 0..Len(a)] ==
            IF i = 0 THEN 0 ELSE (a[i] + b[i] + carry[i - 1]) \div 256
    IN  [i \in 1..Len(a) |-> (a[i] + b[i] + carry[i - 1]) % 256]

IsAdd == Executed /\ OpcodeOf(ir') = IF variant = PS5 THEN 1 ELSE 2

\* The destination and the two source registers of an ADD word.
AddOperands(word) ==
    IF Len(word) = 8
    THEN [dst |-> Field(word, 48, 8), src1 |-> Field(word, 40, 8), src2 |-> Field(word, 32, 8)]
    ELSE [dst |-> Field(word, 20, 4), src1 |-> Field(word, 16, 4), src2 |-> Field(word, 12, 4)]

\* C19: an executed ADD stores (reg[src1] + reg[src2]) mod 2^W into reg[dst],
\* W being 32 or 64: the sum wraps, never saturates and never raises, and is a
\* W-bit value; no other register and no memory byte changes.  (Where both
\* operands are below 2^30 the stored value is their integer sum.)
C19_AddWraps ==
    [][IsAdd =>
            LET f == AddOperands(ir')
                a == registers[f.src1]
                b == registers[f.src2]
                sum == WrappedSum(a, b)
            IN  /\ thread_alive'
                /\ registers' = [registers EXCEPT ![f.dst] = sum]
                /\ memory' = memory
                /\ Len(registers'[f.dst]) = WordBytes(variant)
                /\ \A i \in 1..WordBytes(variant) : registers'[f.dst][i] \in Byte
                /\ (IsSmall(a) /\ IsSmall(b) /\ ToInt(a) < 2 ^ 30 /\ ToInt(b) < 2 ^ 30)
                        => (IsSmall(sum) /\ ToInt(sum) = ToInt(a) + ToInt(b))]_vars

\* 0xFFFFFFFE + 0xFFFFFFFE has been stored as 0xFFFFFFFC (and the same with
\* sixteen hexadecimal digits).
C19_Witness ==
    /\ op = "run_cycle"
    /\ ir \in {ADD32(15, 1, 1), W64(1, 255, 1, 1, 0, 0, 0, 0)}
    /\ registers[1] = [i \in 1..WordBytes(variant) |-> IF i = 1 THEN 254 ELSE 255]
    /\ registers[NumRegisters(variant) - 1]
            = [i \in 1..WordBytes(variant) |-> IF i = 1 THEN 252 ELSE 255]
    /\ thread_alive

(***************************************************************************)
(* Range of the program counter                                            *)
(***************************************************************************)
\* C20: between steps, after any sequence of load_game, load_demo, start,
\* pause, stop and run_cycle calls, 0 <= pc < memory size: a pc at or above
\* the top of memory is reset to 0 by the step that produced it and is never
\* seen by the next fetch or by update_canvas.
C20_PcInRange == pc >= 0 /\ ~ReachesTop(pc)

\* A JMP past the top of memory has been executed and the step has ended
\* halted with pc = 0.
C20_Witness ==
    /\ op = "run_cycle"
    /\ variant = KYTY
    /\ ir = JMP32(16777215)
    /\ prev_state = "Running"
    /\ run_state = "Halted"
    /\ pc = 0

(***************************************************************************)
(* Termination                                                             *)
(***************************************************************************)
\* C21: under fair ticking, a started machine that the user never pauses or
\* stops, and that has no JMP and no BEQ, eventually halts by itself, whatever
\* the program, out-of-range LOAD and STORE addresses included.  As the claim
\* puts it: every step of the running machine advances pc by the instruction
\* width and leaves the machine running and its thread able to take the next
\* step, until pc reaches the top of memory, where the step leaves the machine
\* not running with pc = 0.  (pc then grows at every step of a fairly ticked
\* machine and is bounded by the memory size.)
C21_StepsUntilHalt ==
    [][(op' = "run_cycle" /\ is_running) =>
            /\ thread_alive'
            /\ pc' = Settled(pc + WordBytes(variant))
            /\ is_running' = ~ReachesTop(pc + WordBytes(variant))]_vars

(***************************************************************************)
(* start after stop                                                        *)
(***************************************************************************)
\* The word a step of the machine fetches when its pc is 0.
WordAtZero == read_word(variant, memory, ToBytes(0, WordBytes(variant))).value

\* C22: Halted is not a terminal state.  stop(), called by the user or by the
\* step that runs into the top of memory, leaves a loaded machine Halted, not
\* running, with pc = 0, and stop() itself changes no register and no memory
\* byte; a start() that follows makes the machine Running again with pc,
\* registers and memory as the stop left them; and the step that follows
\* fetches the word at address 0.
C22_HaltedIsNotTerminal ==
    [][/\ op' = "stop" =>
            /\ run_state' = "Halted"
            /\ registers' = registers
            /\ memory' = memory
            /\ game_loaded' = game_loaded
       /\ run_state' = "Halted" =>
            /\ ~is_running'
            /\ pc' = 0
       /\ (op' = "start" /\ run_state = "Halted" /\ game_loaded) =>
            /\ is_running'
            /\ run_state' = "Running"
            /\ pc' = 0
            /\ registers' = registers
            /\ memory' = memory
       /\ (op' = "run_cycle" /\ is_running /\ pc = 0) => ir' = WordAtZero]_vars

\* A machine that ran, was stopped with values in its registers and started
\* again has taken its next step: in the variant without jumps a pc of one
\* instruction width after a second executed instruction is a step from 0.
C22_Witness ==
    /\ variant = HDR
    /\ op = "run_cycle"
    /\ is_running
    /\ ir # <<>>
    /\ cycles >= 2
    /\ pc = WordBytes(variant)
    /\ \E r \in DOMAIN registers : registers[r] # ZeroWord(variant)

====
